---- MODULE Spec2Model ----
(***************************************************************************)
(* The hourly commit collector (backend/hourly_commit_collector.py) as a   *)
(* state machine: safe_get's rate-limit loop, the paginated listings       *)
(* (members, repositories, branches, commits), the per-commit detail       *)
(* request and the merge of the branch-local commit lists into the unique  *)
(* set.  The program is sequential: pc names the statement it is at.  A    *)
(* safe_get call is the actions safe_get_sleep, safe_get_raise and         *)
(* safe_get_return (one requests.get call each); the caller's action then  *)
(* takes the response or the exception and runs up to its next safe_get    *)
(* call.  main calls fetch_all_commits and writes the reports of what it   *)
(* returns; a run ends at pc = "exit" with the exit status of the process. *)
(* Spec is a run with the default --hours-back; SpecWindow is main up to   *)
(* its call of fetch_all_commits for every --hours-back tried; SpecSummary *)
(* is generate_summary on data frames of up to MaxRows commits; SpecRuns   *)
(* is the report stage of up to MaxRuns runs, one after the other, over    *)
(* the same output base directory (disk), the clock advancing in between.  *)
(***************************************************************************)
EXTENDS Integers, Sequences, FiniteSets, TLC

\* ------------------------------------------------------------------ bounds
MaxPerPage == 2      \* items the server puts on one page (per_page=100 in the code)
MaxPages == 2        \* pages of one commit listing
MaxServed == 2       \* commits the server lists in one run, over all listings
MaxRateLimited == 2  \* quota-exhausted responses in a row to one safe_get call
MaxRows == 7         \* rows of a data frame handed to generate_summary alone

\* ------------------------------------------------------- program constants
GuardSeconds == 5          \* "+ 5" of sleep_time
DefaultResetDelay == 60    \* time.time() + 60, the default of X-RateLimit-Reset
MaxLinks == 5              \* commit_links[:5] of generate_summary

\* ----------------------------------------------------------------- values
None == <<>>
Some(x) == <<x>>

Max(a, b) == IF a >= b THEN a ELSE b
Min(a, b) == IF a <= b THEN a ELSE b
Range(s) == {s[i] : i \in DOMAIN s}

\* ------------------------------------------------ the organization served
\* What the API holds for the organization: its members, its repositories and
\* each repository's branches, in the order the API lists them.
MemberList == <<"alice", "bob">>
RepoList == <<"r1", "r2">>
BranchList(repo) == IF repo = "r1" THEN <<"main", "dev">> ELSE <<"main">>

\* The commits the API may list on any branch: "author" is the raw commit's
\* author object (its login), None when the API resolved no account.
\* "name", "message" and "date" are those of the raw commit's "commit" object.
CommitPool ==
    { [sha |-> "s1", author |-> Some("alice"), name |-> "Alice", message |-> "m1", date |-> 2],
      [sha |-> "s2", author |-> Some("carol"), name |-> "Carol", message |-> "m2", date |-> 1],
      [sha |-> "s3", author |-> None, name |-> "Dave", message |-> "m3", date |-> 3] }
Shas == {c.sha : c \in CommitPool}

\* The X-RateLimit-Reset a quota-exhausted response names, in seconds since
\* safe_get was entered: ahead of the first request, behind a retry's.
ResetTimes == {7}

\* The window of the run: main's now and --hours-back, in the unit of the
\* commits' dates.
RunTime == 3
HoursBack == 1
\* --hours-back is any integer (type=int); these are the values tried.
MaxHoursBack == 3
HoursBackValues == (0 - MaxHoursBack) .. MaxHoursBack
\* The wall clock is <<hour, minute>>: the hours since some midnight and the
\* minute of the hour.  The instants at which a run may report: up to
\* MaxHoursLater hours after RunTime, at the minutes 0 .. MaxMinute.
MaxHoursLater == 1
MaxMinute == 1
Instants == (RunTime .. RunTime + MaxHoursLater) \X (0 .. MaxMinute)
HoursPerDay == 24
\* Runs of the program over one output base directory.
MaxRuns == 2

VARIABLES
    config,              \* what load_environment finds: the .env file, the token, the organization
    df,                  \* main's data frame: the unique commits, sorted
    out,                 \* what the run has written below the output directory
    exit_status,         \* None while main runs, then Some(status of the process)
    hours_back,          \* args.hours_back
    start_time, end_time, \* main's window: None, then Some(time) from line 492 on
    no_individual_files, \* args.no_individual_files: None until main reads it, line 550
    pc,                  \* the statement fetch_all_commits is at
    url, params,         \* the arguments of the pending safe_get call
    attempts,            \* requests.get calls the safe_get call in progress has made
    now,                 \* time.time() as safe_get reads it, in seconds since the
                         \* call was entered; 0 when safe_get is not sleeping
    response,            \* safe_get's response: None, or Some(the last one received)
    outcome,             \* what safe_get did with it: "sleep", "raise", "return";
                         \* "idle" when no safe_get call is in progress
    include_all_users, include_details,
    members,             \* get_org_members' local set
    org_members,         \* None, or Some(set of logins)
    repos,               \* fetch_repositories' list
    ri,                  \* index of the repository of the for loop, line 255
    branches,            \* fetch_branches' result for that repository
    bi,                  \* index of the branch of the for loop, line 260
    commits,             \* fetch_commits_for_branch's list
    data, ci,            \* the commit page being iterated and the index in it
    respLink,            \* the Link header of the page's response
    commit_info,         \* the commit waiting for its detail
    unique_commits_dict, \* values in insertion order (the key is the value's sha)
    commit_branches,     \* sha -> list of branch names
    all_unique_commits,  \* the returned list
    served,              \* commits the server has listed so far
    detailCalls,         \* sha -> calls of fetch_commit_details
    seenOn,              \* sha -> names of the branches whose listing yielded the
                         \* sha, in the order they first did
    yieldedIn,           \* sha -> <<repository, branch>> of the listings that yielded
                         \* the sha, in the order they first did
    pagesSeen,           \* page cursors safe_get was called with in the current listing
    listed,              \* raw commits of the pages of the current commit listing
    repeated,            \* shas one listing yielded more than once
    traversed,           \* <<repository, branch>> listings merged so far
    branchFailed,        \* repositories whose branch listing raised
    clock,               \* datetime.datetime.now() as the run's report reads it
                         \* (lines 401, 409): it does not advance within a run
    disk,                \* the output base directory: the hour directories made
                         \* and the files in them, over all runs
    reported             \* the runs that got to line 516, oldest first: when they
                         \* reported, into which directory, and what they wrote

ctl == <<pc, url, params>>
sg == <<attempts, now, response, outcome>>
cfg == <<include_all_users, include_details, hours_back>>
orgv == <<members, org_members, repos, ri, branches, bi>>
brv == <<commits, data, ci, respLink, commit_info>>
aggv == <<unique_commits_dict, commit_branches, all_unique_commits>>
ghost == <<detailCalls, seenOn, yieldedIn, pagesSeen, listed, repeated, traversed, branchFailed>>
winv == <<start_time, end_time>>
fsv == <<clock, disk, reported>>
mainv == <<config, df, out, exit_status, winv, no_individual_files>>
\* The window of the run, once main has computed it.
Since == start_time[1]
Until == end_time[1]
vars == <<ctl, sg, cfg, orgv, brv, aggv, served, ghost, mainv, fsv>>

\* ------------------------------------------------------------------- URLs
\* A URL is the endpoint, the repository, a reference (the branch of a commit
\* listing's next link, the sha of a commit) and the page cursor.
Url(ep, repo, ref, page) == [ep |-> ep, repo |-> repo, ref |-> ref, page |-> page]
NoUrl == Url("", "", "", 0)
MembersUrl == Url("members", "", "", 0)
ReposUrl == Url("repos", "", "", 0)
BranchesUrl(repo) == Url("branches", repo, "", 0)
CommitsUrl_FirstRepository(repo) == Url("commits", RepoList[1], "", 1)
CommitsUrl(repo) == Url("commits", repo, "", 1)
CommitUrl_OfFirstCommit(repo, sha) == Url("commit", repo, "s1", 0)
CommitUrl(repo, sha) == Url("commit", repo, sha, 0)
FirstParams(branch) ==
    [sha |-> branch, per_page |-> 100, since |-> Since, until |-> Until]

\* ------------------------------------------------------------- the server
Meta(status, remaining, reset, body) ==
    [status |-> status, remaining |-> remaining, reset |-> reset, body |-> body]

\* A page of the endpoint's resource.
OkMetas == { Meta(200, Some(1), None, "expected") }
\* Any other answer that is not quota-exhausted: a JSON value of another shape
\* (an error object), an error status, a status that is neither 200 nor an error.
WrongShape == Meta(200, Some(1), None, "object")
FaultMetas ==
    { WrongShape,
      Meta(403, None, None, "object"),
      Meta(403, Some(1), None, "object"),
      Meta(404, Some(1), None, "object"),
      Meta(304, Some(1), None, "empty") }
\* Quota exhausted: 403 with X-RateLimit-Remaining 0, with or without a reset time.
QuotaMetas ==
    { Meta(403, Some(0), reset, "object") :
        reset \in {None} \cup {Some(t) : t \in ResetTimes} }
\* The answers to the pending request.  A 200 of the commit endpoint carries
\* the commit's object.
ServerMetas ==
    (OkMetas
     \cup FaultMetas
     \cup (IF attempts < MaxRateLimited THEN QuotaMetas ELSE {}))
    \ (IF url.ep = "commit" THEN {WrongShape} ELSE {})

\* The Link header of a page: entries <url>; rel="...", absent on a single page.
LinkEntry(u, rel) == [url |-> u, rel |-> rel]
LinkHeader(u, hasPrev, hasNext, nextPage, ref) ==
    LET prev == IF hasPrev THEN <<LinkEntry(Url(u.ep, u.repo, ref, 0), "prev")>> ELSE <<>>
        next == IF hasNext THEN <<LinkEntry(Url(u.ep, u.repo, ref, nextPage), "next")>> ELSE <<>>
        last == IF hasNext THEN <<LinkEntry(Url(u.ep, u.repo, ref, nextPage), "last")>> ELSE <<>>
    IN IF prev \o next = <<>> THEN None ELSE Some(prev \o next \o last)

\* A listing the server holds whole (list), served from cursor off, n items a page.
PageSizes(list, off) ==
    IF off >= Len(list) THEN {0} ELSE 1 .. Min(MaxPerPage, Len(list) - off)
ListPage(list, off, n) == SubSeq(list, off + 1, off + n)
ListLink(list, u, n) ==
    LinkHeader(u, u.page > 0, u.page + n < Len(list), u.page + n, "")

\* ---------------------------------------------------------------- safe_get
IsRateLimited(r) ==
    /\ r.status = 403
    /\ r.remaining # None
    /\ r.remaining[1] = 0

SleepTime_GuardOnly(r, t) == GuardSeconds

SleepTime(r, t) ==
    LET reset_time == IF r.reset # None THEN r.reset[1] ELSE t + DefaultResetDelay
    IN Max(reset_time - t, 0) + GuardSeconds

RaiseForStatus(status) == status >= 400 /\ status < 600

SafeGetOutcome_OneRetry(r) ==
    IF IsRateLimited(r) /\ attempts < 1 THEN "sleep"
    ELSE IF r.status # 200 /\ RaiseForStatus(r.status) THEN "raise"
    ELSE "return"

SafeGetOutcome_NeedsResetTime(r) ==
    IF IsRateLimited(r) /\ r.reset # None THEN "sleep"
    ELSE IF r.status # 200 /\ RaiseForStatus(r.status) THEN "raise"
    ELSE "return"

\* Lines 44-58: what safe_get does with a response.
SafeGetOutcome(r) ==
    IF IsRateLimited(r) THEN "sleep"
    ELSE IF r.status # 200 /\ RaiseForStatus(r.status) THEN "raise"
    ELSE "return"

\* The first rel="next" entry of a Link header.
RECURSIVE FirstNext(_)
FirstNext(links) ==
    IF links = <<>> THEN None
    ELSE IF Head(links).rel = "next" THEN Some(Head(links).url)
    ELSE FirstNext(Tail(links))
ParseNext_FirstPageOnly(header) == None

ParseNext(header) == IF header = None THEN None ELSE FirstNext(header[1])

RequestPcs == {"members", "repos", "branches", "commits", "detail"}

\* Line 41: safe_get may call requests.get, on entry and after a sleep.
CanRequest == pc \in RequestPcs /\ outcome \in {"idle", "sleep"}

\* One requests.get call answered with r, and what safe_get does with r.
Request(r) ==
    /\ response' = Some(r)
    /\ outcome' = SafeGetOutcome(r)
    /\ attempts' = attempts + 1
    /\ now' = IF SafeGetOutcome(r) = "sleep" THEN now + SleepTime(r, now) ELSE 0
    /\ pagesSeen' = IF outcome = "idle" /\ url.ep # "commit"
                    THEN Append(pagesSeen, url.page) ELSE pagesSeen
    /\ UNCHANGED <<ctl, cfg, fsv, mainv, orgv, brv, aggv, served, detailCalls, seenOn, yieldedIn,
                   listed, repeated, traversed, branchFailed>>

\* Lines 44-52: quota exhausted, sleep until the reset time and ask again.
safe_get_sleep ==
    /\ CanRequest
    /\ \E r \in ServerMetas : SafeGetOutcome(r) = "sleep" /\ Request(r)

\* Lines 54-56: response.raise_for_status() raises.
safe_get_raise ==
    /\ CanRequest
    /\ \E r \in ServerMetas : SafeGetOutcome(r) = "raise" /\ Request(r)

\* Line 58.
safe_get_return ==
    /\ CanRequest
    /\ \E r \in ServerMetas : SafeGetOutcome(r) = "return" /\ Request(r)

\* What the caller of safe_get has in hand: "raise" (an exception), the kind of
\* the returned response's JSON body, or "none" while safe_get has not finished.
Result ==
    IF outcome = "raise" THEN "raise"
    ELSE IF outcome = "return" THEN response[1].body
    ELSE "none"
\* safe_get's frame is gone once its caller has the result.
Pop ==
    /\ response' = None
    /\ outcome' = "idle"
    /\ attempts' = 0
    /\ now' = 0

\* -------------------------------------------------------- get_org_members
get_org_members ==
    /\ pc = "members"
    /\ Result = "expected"
    /\ Pop
    /\ \E n \in PageSizes(MemberList, url.page) :
        LET page == ListPage(MemberList, url.page, n)
            next_url == ParseNext(ListLink(MemberList, url, n))
            got == members \cup Range(page)
        IN /\ members' = got
           /\ IF next_url # None
              THEN /\ url' = next_url[1]
                   /\ UNCHANGED <<pc, org_members, pagesSeen>>
              ELSE /\ org_members' = Some(got)
                   /\ pc' = "repos"
                   /\ url' = ReposUrl
                   /\ pagesSeen' = <<>>
    /\ UNCHANGED <<params, cfg, fsv, mainv, repos, ri, branches, bi, brv, aggv,
                   served, detailCalls, seenOn, yieldedIn, listed, repeated, traversed,
                                  branchFailed>>

\* safe_get raises, response.json() raises, or the body is no list of members.
get_org_members_raises ==
    /\ pc = "members"
    /\ Result \in {"raise", "object", "empty"}
    /\ Pop
    /\ pc' = "raised"
    /\ UNCHANGED <<url, params, cfg, fsv, mainv, orgv, brv, aggv,
                   served, detailCalls, seenOn, yieldedIn, pagesSeen, listed, repeated,
                                  traversed, branchFailed>>

\* ----------------------------------------------------- fetch_repositories
fetch_repositories ==
    /\ pc = "repos"
    /\ Result = "expected"
    /\ Pop
    /\ \E n \in PageSizes(RepoList, url.page) :
        LET page == ListPage(RepoList, url.page, n)
            next_url == ParseNext(ListLink(RepoList, url, n))
        IN /\ repos' = repos \o page
           /\ IF next_url # None
              THEN /\ url' = next_url[1]
                   /\ UNCHANGED <<pc, ri>>
              ELSE /\ pc' = "repo_loop"
                   /\ ri' = 1
                   /\ UNCHANGED url
    /\ UNCHANGED <<params, cfg, fsv, mainv, members, org_members, branches, bi, brv, aggv,
                   served, detailCalls, seenOn, yieldedIn, pagesSeen, listed, repeated,
                                  traversed, branchFailed>>

\* safe_get raises, response.json() raises, or the body is no list of repositories.
fetch_repositories_raises ==
    /\ pc = "repos"
    /\ Result \in {"raise", "object", "empty"}
    /\ Pop
    /\ pc' = "raised"
    /\ UNCHANGED <<url, params, cfg, fsv, mainv, orgv, brv, aggv,
                   served, detailCalls, seenOn, yieldedIn, pagesSeen, listed, repeated,
                                  traversed, branchFailed>>

\* ------------------------------------------- fetch_all_commits, lines 255-288
\* Lines 280-283: the values of unique_commits_dict, each with its branches joined.
RECURSIVE Join(_, _)
Join(sep, list) ==
    IF list = <<>> THEN <<>>
    ELSE IF Len(list) = 1 THEN <<list[1]>>
    ELSE <<list[1], sep>> \o Join(sep, Tail(list))

WithBranches(commit, cb) ==
    [k \in DOMAIN commit \cup {"appears_in_branches"} |->
        IF k = "appears_in_branches" THEN Join(", ", cb[commit.sha]) ELSE commit[k]]

\* for repo in repos: the next repository's branch request, or the return.
repo_loop ==
    /\ pc = "repo_loop"
    /\ ri <= Len(repos)
    /\ pc' = "branches"
    /\ url' = BranchesUrl(repos[ri])
    /\ params' = None
    /\ pagesSeen' = <<>>
    /\ UNCHANGED <<sg, cfg, fsv, mainv, orgv, brv, aggv, served, detailCalls, seenOn, yieldedIn,
                   listed, repeated, traversed, branchFailed>>

fetch_all_commits_return ==
    /\ pc = "repo_loop"
    /\ ri > Len(repos)
    /\ all_unique_commits' =
          [i \in DOMAIN unique_commits_dict |->
              WithBranches(unique_commits_dict[i], commit_branches)]
    /\ pc' = "done"
    /\ UNCHANGED <<url, params, sg, cfg, fsv, mainv, orgv, brv, unique_commits_dict, commit_branches,
                   served, ghost>>

\* ---------------------------------------------------------- fetch_branches
\* One request: the names of the first page.
fetch_branches ==
    /\ pc = "branches"
    /\ Result = "expected"
    /\ Pop
    /\ \E n \in PageSizes(BranchList(repos[ri]), url.page) :
        branches' = ListPage(BranchList(repos[ri]), url.page, n)
    /\ pc' = "branch_loop"
    /\ bi' = 1
    /\ UNCHANGED <<url, params, cfg, fsv, mainv, members, org_members, repos, ri, brv, aggv,
                   served, detailCalls, seenOn, yieldedIn, pagesSeen, listed, repeated,
                                  traversed, branchFailed>>

fetch_branches_fails_propagates ==
    /\ pc = "branches"
    /\ Result \in {"raise", "object", "empty"}
    /\ Pop
    /\ pc' = "raised"
    /\ UNCHANGED <<url, params, cfg, fsv, mainv, orgv, brv, aggv, served, ghost>>

\* except Exception: safe_get, response.json() or branch["name"] raised.
fetch_branches_fails ==
    /\ pc = "branches"
    /\ Result \in {"raise", "object", "empty"}
    /\ Pop
    /\ branches' = <<>>
    /\ branchFailed' = branchFailed \cup {repos[ri]}
    /\ pc' = "branch_loop"
    /\ bi' = 1
    /\ UNCHANGED <<url, params, cfg, fsv, mainv, members, org_members, repos, ri, brv, aggv,
                   served, detailCalls, seenOn, yieldedIn, pagesSeen, listed, repeated, traversed>>

\* for branch in branches: the first request of fetch_commits_for_branch, or
\* the next repository.
branch_loop ==
    /\ pc = "branch_loop"
    /\ bi <= Len(branches)
    /\ pc' = "commits"
    /\ url' = CommitsUrl(repos[ri])
    /\ params' = Some(FirstParams(branches[bi]))
    /\ commits' = <<>>
    /\ pagesSeen' = <<>>
    /\ UNCHANGED <<sg, cfg, fsv, mainv, orgv, data, ci, respLink, commit_info, aggv, served,
                   detailCalls, seenOn, yieldedIn, listed, repeated, traversed, branchFailed>>

branch_loop_end ==
    /\ pc = "branch_loop"
    /\ bi > Len(branches)
    /\ pc' = "repo_loop"
    /\ ri' = ri + 1
    /\ branches' = <<>>
    /\ bi' = 0
    /\ url' = NoUrl
    /\ pagesSeen' = <<>>
    /\ UNCHANGED <<params, sg, cfg, fsv, mainv, members, org_members, repos, brv,
                   aggv, served, detailCalls, seenOn, yieldedIn, listed, repeated, traversed,
                                  branchFailed>>

\* ------------------------------------------------ fetch_commits_for_branch
SeqsUpTo(S, n) == UNION {[1 .. k -> S] : k \in 0 .. n}

\* The branch a commit-listing request names: params["sha"] on the first
\* request, the reference the next link carries afterwards.
RequestedBranch == IF params # None THEN params[1].sha ELSE url.ref

\* Lines 183-187 on a page: the list is iterated from its first commit.
fetch_commits_page ==
    /\ pc = "commits"
    /\ Result = "expected"
    /\ Pop
    /\ \E items \in SeqsUpTo(CommitPool, Min(MaxPerPage, MaxServed - served)),
          more \in (IF url.page < MaxPages THEN BOOLEAN ELSE {FALSE}) :
        /\ more => items # <<>>
        /\ listed' = listed \o items
        /\ data' = items
        /\ respLink' = LinkHeader(url, url.page > 1, more, url.page + 1, RequestedBranch)
        /\ served' = served + Len(items)
    /\ ci' = 1
    /\ pc' = "commit_loop"
    /\ UNCHANGED <<url, params, cfg, fsv, mainv, orgv, commits, commit_info, aggv,
                   detailCalls, seenOn, yieldedIn, pagesSeen, repeated, traversed, branchFailed>>

\* Lines 186-187: the body is not a list, break.
fetch_commits_page_not_list ==
    /\ pc = "commits"
    /\ Result = "object"
    /\ Pop
    /\ pc' = "merge"
    /\ UNCHANGED <<url, params, cfg, fsv, mainv, orgv, brv, aggv,
                   served, detailCalls, seenOn, yieldedIn, pagesSeen, listed, repeated,
                                  traversed, branchFailed>>

fetch_commits_page_fails_drops ==
    /\ pc = "commits"
    /\ Result \in {"raise", "empty"}
    /\ Pop
    /\ pc' = "merge"
    /\ commits' = <<>>
    /\ UNCHANGED <<url, params, cfg, fsv, mainv, orgv, data, ci, respLink, commit_info, aggv,
                   served, ghost>>

\* Lines 234-236: safe_get or response.json() raised, break.
fetch_commits_page_fails ==
    /\ pc = "commits"
    /\ Result \in {"raise", "empty"}
    /\ Pop
    /\ pc' = "merge"
    /\ UNCHANGED <<url, params, cfg, fsv, mainv, orgv, brv, aggv,
                   served, detailCalls, seenOn, yieldedIn, pagesSeen, listed, repeated,
                                  traversed, branchFailed>>

Excluded_Nobody(commit) == FALSE

Excluded_MembersOnlyWhenKnown(commit) ==
    IF org_members = None THEN FALSE
    ELSE IF commit.author = None THEN FALSE
    ELSE commit.author[1] \notin org_members[1]

\* Lines 193-195: the membership filter.
Excluded(commit) ==
    IF org_members = None THEN FALSE
    ELSE IF commit.author = None THEN TRUE
    ELSE commit.author[1] \notin org_members[1]

\* Lines 201-210.
CommitInfo(repo, branch, commit) ==
    [repo |-> repo,
     branch |-> branch,
     sha |-> commit.sha,
     message |-> commit.message,
     author |-> commit.name,
     author_login |-> IF commit.author # None THEN commit.author[1] ELSE "Unknown",
     date |-> commit.date,
     commit_link |-> <<repo, commit.sha>>]

\* The record of a yielded commit: its branch name, once, after the earlier ones.
Seen(so, info) ==
    [so EXCEPT ![info.sha] = IF info.branch \in Range(@) THEN @ ELSE Append(@, info.branch)]

SeenIn(yi, info) ==
    [yi EXCEPT ![info.sha] = IF <<info.repo, info.branch>> \in Range(@) THEN @
                             ELSE Append(@, <<info.repo, info.branch>>)]

commit_loop_skip ==
    /\ pc = "commit_loop"
    /\ ci <= Len(data)
    /\ Excluded(data[ci])
    /\ ci' = ci + 1
    /\ UNCHANGED <<ctl, sg, cfg, fsv, mainv, orgv, commits, data, respLink, commit_info, aggv, served, ghost>>

\* A commit that passes the filter: appended, after its detail when requested.
commit_loop_accept ==
    /\ pc = "commit_loop"
    /\ ci <= Len(data)
    /\ ~Excluded(data[ci])
    /\ LET info == CommitInfo(repos[ri], branches[bi], data[ci])
       IN /\ repeated' = IF \E i \in DOMAIN commits : commits[i].sha = info.sha
                          THEN repeated \cup {info.sha} ELSE repeated
          /\ IF include_details
             THEN /\ pc' = "detail"
                  /\ url' = CommitUrl(repos[ri], info.sha)
                  /\ params' = None
                  /\ commit_info' = Some(info)
                  /\ detailCalls' = [detailCalls EXCEPT ![info.sha] = @ + 1]
                  /\ UNCHANGED <<commits, ci, seenOn, yieldedIn>>
             ELSE /\ commits' = Append(commits, info)
                  /\ seenOn' = Seen(seenOn, info)
                  /\ yieldedIn' = SeenIn(yieldedIn, info)
                  /\ ci' = ci + 1
                  /\ UNCHANGED <<ctl, commit_info, detailCalls>>
    /\ UNCHANGED <<sg, cfg, fsv, mainv, orgv, data, respLink, aggv, served, pagesSeen, listed,
                   traversed, branchFailed>>

commit_loop_end_keeps_params ==
    /\ pc = "commit_loop"
    /\ ci > Len(data)
    /\ LET next_url == ParseNext(respLink)
       IN IF next_url # None
          THEN /\ url' = next_url[1]
               /\ pc' = "commits"
               /\ UNCHANGED params
          ELSE /\ pc' = "merge"
               /\ UNCHANGED <<url, params>>
    /\ UNCHANGED <<sg, cfg, fsv, mainv, orgv, brv, aggv, served, ghost>>

\* Lines 221-232: the page is done, follow the next link or leave the loop.
commit_loop_end ==
    /\ pc = "commit_loop"
    /\ ci > Len(data)
    /\ LET next_url == ParseNext(respLink)
       IN IF next_url # None
          THEN /\ url' = next_url[1]
               /\ params' = None
               /\ pc' = "commits"
          ELSE /\ pc' = "merge"
               /\ UNCHANGED <<url, params>>
    /\ UNCHANGED <<sg, cfg, fsv, mainv, orgv, brv, aggv, served, ghost>>

\* ---------------------------------------------------- fetch_commit_details
\* The files the API reports for a commit.
FilesOf(sha) == IF sha = "s2" THEN 0 ELSE 1

FileChange(sha, i) ==
    [filename |-> <<sha, i>>, status |-> "modified",
     additions |-> 1, deletions |-> 0, changes |-> 1, patch |-> "diff"]

\* Lines 140-163 on the commit object of sha with n files.
Details(sha, n) ==
    [stats |-> [total_additions |-> n, total_deletions |-> 0, total_changes |-> n],
     files |-> [i \in 1 .. n |-> FileChange(sha, i)],
     files_changed |-> n]

\* commit_info.update(details)
Update(info, details) ==
    [k \in DOMAIN info \cup DOMAIN details |->
        IF k \in DOMAIN details THEN details[k] ELSE info[k]]

\* Lines 131-163, 213-219: the answer is the commit object of the sha the
\* request names; its stats and files go into commit_info.
fetch_commit_details ==
    /\ pc = "detail"
    /\ Result = "expected"
    /\ Pop
    /\ commits' = Append(commits, Update(commit_info[1], Details(url.ref, FilesOf(url.ref))))
    /\ seenOn' = Seen(seenOn, commit_info[1])
    /\ yieldedIn' = SeenIn(yieldedIn, commit_info[1])
    /\ commit_info' = None
    /\ ci' = ci + 1
    /\ pc' = "commit_loop"
    /\ UNCHANGED <<url, params, cfg, fsv, mainv, orgv, data, respLink, aggv,
                   served, detailCalls, pagesSeen, listed, repeated, traversed, branchFailed>>

fetch_commit_details_fails_skips ==
    /\ pc = "detail"
    /\ Result \in {"raise", "empty"}
    /\ Pop
    /\ commit_info' = None
    /\ ci' = ci + 1
    /\ pc' = "commit_loop"
    /\ UNCHANGED <<url, params, cfg, fsv, mainv, orgv, commits, data, respLink, aggv,
                   served, ghost>>

\* Lines 165-167: None, the commit is appended as it is.
fetch_commit_details_fails ==
    /\ pc = "detail"
    /\ Result \in {"raise", "empty"}
    /\ Pop
    /\ commits' = Append(commits, commit_info[1])
    /\ seenOn' = Seen(seenOn, commit_info[1])
    /\ yieldedIn' = SeenIn(yieldedIn, commit_info[1])
    /\ commit_info' = None
    /\ ci' = ci + 1
    /\ pc' = "commit_loop"
    /\ UNCHANGED <<url, params, cfg, fsv, mainv, orgv, data, respLink, aggv,
                   served, detailCalls, pagesSeen, listed, repeated, traversed, branchFailed>>

\* ------------------------------------------- fetch_all_commits, lines 268-278
InDict(sha, ucd) == \E i \in DOMAIN ucd : ucd[i].sha = sha

TrackBranch_FirstSightOnly(cb, sha, branch) ==
    IF sha \in DOMAIN cb THEN cb ELSE cb @@ (sha :> <<branch>>)

TrackBranch_NewestFirst(cb, sha, branch) ==
    LET cb1 == IF sha \in DOMAIN cb THEN cb ELSE cb @@ (sha :> <<>>)
    IN [cb1 EXCEPT ![sha] = <<branch>> \o @]

TrackBranch(cb, sha, branch) ==
    LET cb1 == IF sha \in DOMAIN cb THEN cb ELSE cb @@ (sha :> <<>>)
    IN [cb1 EXCEPT ![sha] = Append(@, branch)]

AddUnique_LastWins(ucd, commit) ==
    IF InDict(commit.sha, ucd)
    THEN [i \in DOMAIN ucd |-> IF ucd[i].sha = commit.sha THEN commit ELSE ucd[i]]
    ELSE Append(ucd, commit)

AddUnique_PerRepository(ucd, commit) ==
    IF \E i \in DOMAIN ucd : ucd[i].sha = commit.sha /\ ucd[i].repo = commit.repo
    THEN ucd ELSE Append(ucd, commit)

\* Lines 277-278: only a sha that is not yet a key is stored.
AddUnique(ucd, commit) ==
    IF InDict(commit.sha, ucd) THEN ucd ELSE Append(ucd, commit)

RECURSIVE MergeCommits(_, _, _, _)
MergeCommits(branch_commits, branch, ucd, cb) ==
    IF branch_commits = <<>> THEN [ucd |-> ucd, cb |-> cb]
    ELSE LET commit == Head(branch_commits)
         IN MergeCommits(Tail(branch_commits), branch,
                         AddUnique(ucd, commit),
                         TrackBranch(cb, commit.sha, branch))

merge_same_branch ==
    /\ pc = "merge"
    /\ LET m == MergeCommits(commits, branches[bi], unique_commits_dict, commit_branches)
       IN /\ unique_commits_dict' = m.ucd
          /\ commit_branches' = m.cb
    /\ pc' = "branch_loop"
    /\ bi' = bi
    /\ commits' = <<>>
    /\ data' = <<>>
    /\ ci' = 0
    /\ respLink' = None
    /\ url' = NoUrl
    /\ params' = None
    /\ pagesSeen' = <<>>
    /\ listed' = <<>>
    /\ traversed' = traversed \cup {<<repos[ri], branches[bi]>>}
    /\ UNCHANGED <<sg, cfg, fsv, mainv, members, org_members, repos, ri, branches, commit_info,
                   all_unique_commits, served, detailCalls, seenOn, yieldedIn, repeated,
                                  branchFailed>>

\* Lines 268-278 on the commits of the branch, then the next branch.
merge ==
    /\ pc = "merge"
    /\ LET m == MergeCommits(commits, branches[bi], unique_commits_dict, commit_branches)
       IN /\ unique_commits_dict' = m.ucd
          /\ commit_branches' = m.cb
    /\ pc' = "branch_loop"
    /\ bi' = bi + 1
    /\ commits' = <<>>
    /\ data' = <<>>
    /\ ci' = 0
    /\ respLink' = None
    /\ url' = NoUrl
    /\ params' = None
    /\ pagesSeen' = <<>>
    /\ listed' = <<>>
    /\ traversed' = traversed \cup {<<repos[ri], branches[bi]>>}
    /\ UNCHANGED <<sg, cfg, fsv, mainv, members, org_members, repos, ri, branches, commit_info,
                   all_unique_commits, served, detailCalls, seenOn, yieldedIn, repeated,
                                  branchFailed>>

\* ------------------------------------------------------------ main, reports
load_environment_no_checks(c) ==
    IF ~c.env_file THEN "FileNotFoundError" ELSE "ok"

\* load_environment: what it raises, or "ok".
load_environment(c) ==
    IF ~c.env_file THEN "FileNotFoundError"
    ELSE IF ~c.token THEN "ValueError"
    ELSE IF ~c.org THEN "ValueError"
    ELSE "ok"

\* Nothing written yet: no output directory, no file in it.
NoOutput == [dir |-> FALSE, csv |-> None, md |-> None, commits |-> {}, metadata |-> None]
Metadata(total) == [start |-> Since, end |-> Until, total |-> total]

\* Lines 401-403: the hour directory, "%Y%m%d_%H" of the clock.
get_hourly_output_dir(t) == t[1]
\* Line 409: "%H%M" of the clock.
Timestamp(t) == <<t[1] % HoursPerDay, t[2]>>
NoFiles == [dirs |-> {}, files |-> {}]
\* The files a run writes into its directory, as <<directory, name, content>>:
\* {org}_commits_{timestamp}.csv (line 412), {org}_summary_{timestamp}.md
\* (line 430), commits/{file} (lines 332-338), metadata.txt (lines 446, 520).
FilesOfRun(dir, stamp, o) ==
    (IF o.csv # None THEN {<<dir, <<"commits.csv", stamp>>, o.csv[1]>>} ELSE {})
    \cup (IF o.md # None THEN {<<dir, <<"summary.md", stamp>>, o.md[1]>>} ELSE {})
    \cup {<<dir, <<"commits", f>>, f>> : f \in o.commits}
    \cup (IF o.metadata # None THEN {<<dir, <<"metadata.txt">>, o.metadata[1]>>} ELSE {})
\* os.makedirs(exist_ok=True) and open(path, 'w'): a file of the same name
\* in the same directory is replaced, every other file stays.
Persist(d, dir, stamp, o) ==
    LET new == FilesOfRun(dir, stamp, o)
    IN [dirs |-> IF o.dir THEN d.dirs \cup {dir} ELSE d.dirs,
        files |-> {f \in d.files : \A g \in new : f[1] # g[1] \/ f[2] # g[2]} \cup new]
\* What the step's writes (out') leave on the disk, and the record of the run.
Saved ==
    /\ clock' = clock
    /\ disk' = Persist(disk, get_hourly_output_dir(clock), Timestamp(clock), out')
    /\ reported' = Append(reported,
                          [dir |-> get_hourly_output_dir(clock),
                           at |-> clock,
                           timestamp |-> Timestamp(clock),
                           total |-> Len(all_unique_commits),
                           describes |-> Metadata(Len(all_unique_commits)),
                           wrote |-> out'])

main_fetch_asks_members ==
    /\ pc = "main"
    /\ load_environment(config) = "ok"
    /\ pc' = "members"
    /\ url' = MembersUrl
    /\ start_time' = Some(RunTime - hours_back)
    /\ end_time' = Some(RunTime)
    /\ UNCHANGED <<params, sg, cfg, fsv, config, df, out, exit_status, no_individual_files,
                   orgv, brv, aggv, served, ghost>>

\* Lines 481-514: the environment is loaded, the window computed and
\* fetch_all_commits called (include_details is left to its default).
main_fetch ==
    /\ pc = "main"
    /\ load_environment(config) = "ok"
    /\ pc' = IF include_all_users THEN "repos" ELSE "members"
    /\ url' = IF include_all_users THEN ReposUrl ELSE MembersUrl
    /\ start_time' = Some(RunTime - hours_back)
    /\ end_time' = Some(RunTime)
    /\ UNCHANGED <<params, sg, cfg, fsv, config, df, out, exit_status, no_individual_files,
                   orgv, brv, aggv, served, ghost>>

\* Lines 483, 561-563: load_environment raises.
main_environment_raises ==
    /\ pc = "main"
    /\ load_environment(config) # "ok"
    /\ pc' = "exit"
    /\ exit_status' = Some(1)
    /\ UNCHANGED <<url, params, sg, cfg, fsv, config, df, out, winv, no_individual_files,
                   orgv, brv, aggv, served, ghost>>

main_except_succeeds ==
    /\ pc = "raised"
    /\ pc' = "exit"
    /\ exit_status' = Some(0)
    /\ out' = [out EXCEPT !.dir = TRUE, !.metadata = Some(Metadata(0))]
    /\ Saved
    /\ UNCHANGED <<url, params, sg, cfg, config, df, winv, no_individual_files,
                   orgv, brv, aggv, served, ghost>>

\* Lines 561-563: an exception left fetch_all_commits.
main_except ==
    /\ pc = "raised"
    /\ pc' = "exit"
    /\ exit_status' = Some(1)
    /\ UNCHANGED <<url, params, sg, cfg, fsv, config, df, out, winv, no_individual_files,
                   orgv, brv, aggv, served, ghost>>

main_no_commits_reports ==
    /\ pc = "done"
    /\ all_unique_commits = <<>>
    /\ out' = [dir |-> TRUE, csv |-> Some(<<>>), md |-> Some([text |-> "No commits found"]),
               commits |-> {}, metadata |-> Some(Metadata(0))]
    /\ pc' = "exit"
    /\ exit_status' = Some(0)
    /\ Saved
    /\ UNCHANGED <<url, params, sg, cfg, config, df, winv, no_individual_files,
                   orgv, brv, aggv, served, ghost>>

main_no_commits_untracked ==
    /\ pc = "done"
    /\ all_unique_commits = <<>>
    /\ out' = [out EXCEPT !.dir = TRUE]
    /\ pc' = "exit"
    /\ exit_status' = Some(0)
    /\ Saved
    /\ UNCHANGED <<url, params, sg, cfg, config, df, winv, no_individual_files,
                   orgv, brv, aggv, served, ghost>>

\* Lines 516-531: no commit; the directory and the metadata file, then return.
main_no_commits ==
    /\ pc = "done"
    /\ all_unique_commits = <<>>
    /\ out' = [out EXCEPT !.dir = TRUE, !.metadata = Some(Metadata(0))]
    /\ pc' = "exit"
    /\ exit_status' = Some(0)
    /\ Saved
    /\ UNCHANGED <<url, params, sg, cfg, config, df, winv, no_individual_files,
                   orgv, brv, aggv, served, ghost>>
\* Line 536: df.sort_values("date", ascending=False).
RECURSIVE InsertByDate(_, _)
InsertByDate(sorted, row) ==
    IF sorted = <<>> THEN <<row>>
    ELSE IF Head(sorted).date >= row.date THEN <<Head(sorted)>> \o InsertByDate(Tail(sorted), row)
    ELSE <<row>> \o sorted
sort_values_as_collected(frame) == frame

RECURSIVE sort_values(_)
sort_values(frame) ==
    IF frame = <<>> THEN <<>>
    ELSE InsertByDate(sort_values(SubSeq(frame, 1, Len(frame) - 1)), frame[Len(frame)])

\* A data frame is the sequence of its rows.  A column exists when some row
\* has the key; a row without the key holds NaN in it.
HasColumn(frame, col) == \E i \in DOMAIN frame : col \in DOMAIN frame[i]
Cell(frame, i, col) ==
    IF col \in DOMAIN frame[i] THEN [kind |-> "value", value |-> frame[i][col]]
    ELSE IF HasColumn(frame, col) THEN [kind |-> "nan", value |-> <<>>]
    ELSE [kind |-> "none", value |-> <<>>]
\* Python's truth value of a cell: None and empty containers are false, NaN is true.
Truthy(cell) ==
    IF cell.kind = "none" THEN FALSE
    ELSE IF cell.kind = "nan" THEN TRUE
    ELSE DOMAIN cell.value # {}

Unique_WithRepeats(list) == list

\* The elements of a list, each once, in the order they first appear (unique()).
RECURSIVE Unique(_)
Unique(list) ==
    IF list = <<>> THEN <<>>
    ELSE LET front == Unique(SubSeq(list, 1, Len(list) - 1))
             x == list[Len(list)]
         IN IF x \in Range(front) THEN front ELSE Append(front, x)

\* sorted(): the order of Python's strings on the names that occur.
NameOrder == <<"Alice", "Bob", "Carol", "Dave", "Unknown", "r1", "r2">>
Rank(name) == CHOOSE i \in DOMAIN NameOrder : NameOrder[i] = name
KeyBefore(g, h) ==
    \/ Rank(g[1]) < Rank(h[1])
    \/ g[1] = h[1] /\ Rank(g[2]) < Rank(h[2])
\* groupby(["repo", "author"]) iterates its groups in the order of their keys.
RECURSIVE SortKeys(_)
SortKeys(keys) ==
    IF keys = {} THEN <<>>
    ELSE LET g == CHOOSE k \in keys : \A h \in keys \ {k} : KeyBefore(k, h)
         IN <<g>> \o SortKeys(keys \ {g})

\* Lines 313-322: the line of one group.
GroupLine(frame, g) ==
    LET rows == {i \in DOMAIN frame : <<frame[i].repo, frame[i].author>> = g}
        links == Unique([i \in 1 .. Len(frame) |->
                     IF i \in rows THEN frame[i].commit_link ELSE <<>>])
        commit_links == SelectSeq(links, LAMBDA l : l # <<>>)
    IN [kind |-> "group", repo |-> g[1], author |-> g[2],
        commit_count |-> Cardinality(rows),
        links |-> SubSeq(commit_links, 1, Min(MaxLinks, Len(commit_links))),
        more |-> IF Len(commit_links) > MaxLinks
                 THEN Some(Len(commit_links) - MaxLinks) ELSE None]

\* Lines 308-322: the loop over the groups, a heading when the repository changes.
RECURSIVE SummaryLines(_, _, _)
SummaryLines(frame, keys, current_repo) ==
    IF keys = <<>> THEN <<>>
    ELSE LET g == Head(keys)
             heading == IF current_repo # Some(g[1])
                        THEN <<[kind |-> "repository", repo |-> g[1]]>> ELSE <<>>
         IN heading \o <<GroupLine(frame, g)>> \o SummaryLines(frame, Tail(keys), Some(g[1]))

\* generate_summary: the text for an empty frame, else the header and the
\* lines of the repositories and of their (repo, author) groups.
generate_summary(frame) ==
    IF frame = <<>> THEN [text |-> "No commits found", start |-> Since, end |-> Until]
    ELSE [text |-> "Hourly GitHub Activity Report", start |-> Since, end |-> Until,
          total |-> Len(frame),
          lines |-> SummaryLines(frame,
                        SortKeys({<<frame[i].repo, frame[i].author>> : i \in DOMAIN frame}),
                        None)]

\* Lines 415-427: the row of the CSV, files dropped and stats flattened.
CsvRow(row, flattened) ==
    [k \in (DOMAIN row \ {"files", "stats"})
           \cup (IF flattened THEN {"total_additions", "total_deletions", "total_changes"}
                 ELSE {}) |->
        IF k \in DOMAIN row \ {"files", "stats"} THEN row[k] ELSE row.stats[k]]

\* Line 337: the name of a commit's file.
CommitFile(row) == <<row.repo, row.sha, row.date>>

\* save_hourly_report: what it has written when it returns or raises.
save_hourly_report(frame, summary, save_individual_commits) ==
    LET flattened == HasColumn(frame, "stats") /\ frame # <<>>
                     /\ Truthy(Cell(frame, 1, "stats"))
        \* line 421: x.get on a NaN
        flatten_raises == flattened /\ \E i \in DOMAIN frame : Cell(frame, i, "stats").kind = "nan"
        \* lines 440-441, 357-361: a NaN is true, and no list of files
        bad == IF save_individual_commits
               THEN {i \in DOMAIN frame : Cell(frame, i, "files").kind = "nan"} ELSE {}
        upto == IF bad = {} THEN Len(frame) ELSE (CHOOSE i \in bad : \A j \in bad : i <= j) - 1
        saved == IF save_individual_commits
                 THEN {CommitFile(frame[i]) :
                         i \in {j \in 1 .. upto : Truthy(Cell(frame, j, "files"))}}
                 ELSE {}
    IN IF flatten_raises
       THEN [raised |-> TRUE, csv |-> None, md |-> None, commits |-> {}, metadata |-> None]
       ELSE [raised |-> bad # {},
             csv |-> Some([i \in DOMAIN frame |-> CsvRow(frame[i], flattened)]),
             md |-> Some(summary),
             commits |-> saved,
             metadata |-> IF bad = {} THEN Some(Metadata(Len(frame))) ELSE None]

\* Lines 516-518, 533-565: the directory, the sorted frame, the summary and
\* the report files; 0 when save_hourly_report returns, 1 when it raises.
Report(save_individual_commits) ==
    LET frame == sort_values(all_unique_commits)
    IN save_hourly_report(frame, generate_summary(frame), save_individual_commits)
RunReport(r) ==
    /\ df' = sort_values(all_unique_commits)
    /\ out' = [dir |-> TRUE, csv |-> r.csv, md |-> r.md, commits |-> r.commits,
               metadata |-> r.metadata]
    /\ pc' = "exit"
    /\ Saved
    /\ UNCHANGED <<url, params, sg, cfg, config, winv, orgv, brv, aggv, served, ghost>>

main_report ==
    /\ pc = "done"
    /\ all_unique_commits # <<>>
    /\ \E b \in BOOLEAN :
          /\ ~Report(~b).raised
          /\ no_individual_files' = Some(b)
          /\ RunReport(Report(~b))
    /\ exit_status' = Some(0)

main_report_raises ==
    /\ pc = "done"
    /\ all_unique_commits # <<>>
    /\ \E b \in BOOLEAN :
          /\ Report(~b).raised
          /\ no_individual_files' = Some(b)
          /\ RunReport(Report(~b))
    /\ exit_status' = Some(1)

\* No request made, nothing collected, nothing written.
Idle ==
    /\ no_individual_files = None
    /\ include_details = TRUE
    /\ out = NoOutput
    /\ exit_status = None
    /\ url = NoUrl
    /\ params = None
    /\ attempts = 0
    /\ now = 0
    /\ response = None
    /\ outcome = "idle"
    /\ members = {}
    /\ org_members = None
    /\ repos = <<>>
    /\ ri = 0
    /\ branches = <<>>
    /\ bi = 0
    /\ commits = <<>>
    /\ data = <<>>
    /\ ci = 0
    /\ respLink = None
    /\ commit_info = None
    /\ unique_commits_dict = <<>>
    /\ commit_branches = <<>>
    /\ served = 0
    /\ detailCalls = [s \in Shas |-> 0]
    /\ seenOn = [s \in Shas |-> <<>>]
    /\ yieldedIn = [s \in Shas |-> <<>>]
    /\ pagesSeen = <<>>
    /\ listed = <<>>
    /\ repeated = {}
    /\ traversed = {}
    /\ branchFailed = {}
    /\ clock = <<RunTime, 0>>
    /\ disk = NoFiles
    /\ reported = <<>>

\* The state main starts in, whatever --hours-back is.
Start ==
    /\ Idle
    /\ include_all_users \in BOOLEAN
    /\ start_time = None
    /\ end_time = None
    /\ config \in [env_file : BOOLEAN, token : BOOLEAN, org : BOOLEAN]
    /\ df = <<>>
    /\ all_unique_commits = <<>>
    /\ pc = "main"

\* A run with the default --hours-back.
Init == Start /\ hours_back = HoursBack

Next ==
    \/ main_fetch
    \/ main_environment_raises
    \/ main_except
    \/ main_no_commits
    \/ main_report
    \/ main_report_raises
    \/ safe_get_sleep
    \/ safe_get_raise
    \/ safe_get_return
    \/ get_org_members
    \/ get_org_members_raises
    \/ fetch_repositories
    \/ fetch_repositories_raises
    \/ repo_loop
    \/ fetch_all_commits_return
    \/ fetch_branches
    \/ fetch_branches_fails
    \/ branch_loop
    \/ branch_loop_end
    \/ fetch_commits_page
    \/ fetch_commits_page_not_list
    \/ fetch_commits_page_fails
    \/ commit_loop_skip
    \/ commit_loop_accept
    \/ commit_loop_end
    \/ fetch_commit_details
    \/ fetch_commit_details_fails
    \/ merge

Spec == Init /\ [][Next]_vars

\* main up to its call of fetch_all_commits, for every --hours-back tried.
InitWindow == Start /\ hours_back \in HoursBackValues
NextWindow ==
    \/ main_fetch
    \/ main_environment_raises
SpecWindow == InitWindow /\ [][NextWindow]_vars

\* generate_summary alone, on the data frames main may hand it at line 539:
\* up to MaxRows commits of two repositories and two authors, the first ones
\* Bob's; the last row may repeat the permalink of the first.
Row(repo, author, sha) ==
    [repo |-> repo, author |-> author, sha |-> sha, commit_link |-> <<repo, sha>>]
Frames ==
    {[i \in 1 .. n |->
        Row(IF i \in inR1 THEN "r1" ELSE "r2",
            IF i <= bobs THEN "Bob" ELSE "Alice",
            IF again /\ i = n THEN 1 ELSE i)] :
        n \in 1 .. MaxRows, inR1 \in SUBSET (1 .. MaxRows), bobs \in 0 .. MaxRows,
        again \in BOOLEAN}
InitSummary ==
    /\ Idle
    /\ include_all_users = FALSE
    /\ config = [env_file |-> TRUE, token |-> TRUE, org |-> TRUE]
    /\ hours_back = HoursBack
    /\ start_time = Some(RunTime - HoursBack)
    /\ end_time = Some(RunTime)
    /\ pc = "summary"
    /\ all_unique_commits = <<>>
    /\ df \in Frames
\* Line 539, and the summary file of lines 430-432.
main_summary ==
    /\ pc = "summary"
    /\ out' = [out EXCEPT !.dir = TRUE, !.md = Some(generate_summary(df))]
    /\ pc' = "exit"
    /\ UNCHANGED <<url, params, sg, cfg, fsv, config, df, exit_status, winv, no_individual_files,
                   orgv, brv, aggv, served, ghost>>
NextSummary == main_summary
SpecSummary == InitSummary /\ [][NextSummary]_vars

\* Runs of main one after the other over the same output base directory,
\* each taken up where fetch_all_commits has returned (line 514).  What it
\* returned: no commit; or, of r2's branch main with --include-all-users,
\* s1 with its detail; s1 without detail; s1 with detail and s2 without.
Finding(sha, detailed) ==
    LET info == CommitInfo("r2", "main", CHOOSE c \in CommitPool : c.sha = sha)
    IN WithBranches(IF detailed THEN Update(info, Details(sha, FilesOf(sha))) ELSE info,
                    sha :> <<"main">>)
Results ==
    { <<>>,
      <<Finding("s1", TRUE)>>,
      <<Finding("s1", FALSE)>>,
      <<Finding("s1", TRUE), Finding("s2", FALSE)>> }
InitRuns ==
    /\ Idle
    /\ include_all_users = TRUE
    /\ config = [env_file |-> TRUE, token |-> TRUE, org |-> TRUE]
    /\ hours_back = HoursBack
    /\ start_time = Some(RunTime - HoursBack)
    /\ end_time = Some(RunTime)
    /\ df = <<>>
    /\ pc = "done"
    /\ all_unique_commits \in Results
\* Lines 468-514 of the next run: the program is started again, not before
\* the last run ended; its window ends at the new time (lines 491-493).
run_again ==
    /\ pc = "exit"
    /\ Len(reported) < MaxRuns
    /\ \E t \in Instants :
          /\ t[1] > clock[1] \/ (t[1] = clock[1] /\ t[2] >= clock[2])
          /\ clock' = t
          /\ start_time' = Some(t[1] - hours_back)
          /\ end_time' = Some(t[1])
    /\ all_unique_commits' \in Results
    /\ out' = NoOutput
    /\ df' = <<>>
    /\ exit_status' = None
    /\ no_individual_files' = None
    /\ pc' = "done"
    /\ UNCHANGED <<url, params, sg, cfg, config, orgv, brv, unique_commits_dict,
                   commit_branches, served, ghost, disk, reported>>
NextRuns ==
    \/ main_no_commits
    \/ main_report
    \/ main_report_raises
    \/ run_again
SpecRuns == InitRuns /\ [][NextRuns]_vars

\* ================================================================ properties
\* The entries of the returned list, and the names joined into one entry's
\* appears_in_branches, in the order they were joined.
Entries == {all_unique_commits[i] : i \in DOMAIN all_unique_commits}
BranchNames(entry) ==
    [i \in 1 .. (Len(entry.appears_in_branches) + 1) \div 2 |->
        entry.appears_in_branches[2 * i - 1]]
Observed == {s \in Shas : seenOn[s] # <<>>}

\* C1: with detail fetching enabled, the detail of a SHA is requested once,
\* on however many (repository, branch) listings the SHA is returned.  Stated
\* for the SHAs no single listing returns twice.
C1_DetailOncePerSha ==
    \A s \in Shas \ repeated : detailCalls[s] <= 1

\* C2: the returned list has exactly one entry for every SHA some listing
\* yielded, and the branch names recorded in the entry are, as a set, the
\* names of the branches whose listings yielded the SHA.
C2_OneEntryPerSha ==
    pc = "done" =>
        /\ \A i, j \in DOMAIN all_unique_commits :
              all_unique_commits[i].sha = all_unique_commits[j].sha => i = j
        /\ {e.sha : e \in Entries} = Observed
        /\ \A e \in Entries : Range(BranchNames(e)) = Range(seenOn[e.sha])

C2_Witness ==
    /\ pc = "done"
    /\ \E e \in Entries : Cardinality(Range(seenOn[e.sha])) = 2

\* C3: the branch list recorded for a SHA holds each branch name once, in the
\* order the names first yielded the SHA.  Stated for the SHAs no single
\* listing returns twice (the same name then comes from two repositories).
C3_BranchNamesOnce ==
    pc = "done" =>
        \A e \in Entries : e.sha \notin repeated => BranchNames(e) = seenOn[e.sha]

\* A quota-exhausted response: status 403 with X-RateLimit-Remaining 0.
QuotaExhausted(r) == r.status = 403 /\ r.remaining = Some(0)
Received == IF response = None THEN {} ELSE {response[1]}

\* C4: on a quota-exhausted response that names the reset time T, safe_get
\* sleeps max(T - now, 0) + 5 seconds, so its retry is issued at T or later;
\* when that retry is answered with a success, safe_get has made exactly one
\* retry and returns its response.
C4_Asleep ==
    \A r \in Received :
        outcome = "sleep" /\ r.reset # None => now >= r.reset[1]
C4_Step ==
    \A r \in (IF response' = None THEN {} ELSE {response'[1]}) :
        /\ outcome' = "sleep" /\ r.reset # None /\ attempts' # attempts
              => now' - now = Max(r.reset[1] - now, 0) + GuardSeconds
        /\ outcome = "sleep" /\ attempts = 1 /\ r.status = 200
              => outcome' = "return" /\ attempts' = 2
C4_SleepsUntilReset == [] C4_Asleep /\ [][C4_Step]_vars

C4_Witness ==
    /\ outcome = "return"
    /\ attempts = 2
    /\ response[1].status = 200

\* C5: safe_get never hands a quota-exhausted response to its caller, neither
\* returned nor raised: after every one of them it calls again with the same
\* URL and parameters, however many came before, and it finishes on the first
\* response that is not quota-exhausted.
C5_Handled ==
    \A r \in Received : QuotaExhausted(r) <=> outcome = "sleep"
C5_Step ==
    outcome = "sleep" =>
        /\ pc' = pc /\ url' = url /\ params' = params
        /\ attempts' = attempts + 1
        /\ outcome' # "idle"
C5_QuotaNeverSurfaces == [] C5_Handled /\ [][C5_Step]_vars

C5_Witness ==
    /\ pc = "detail"
    /\ attempts >= 2
    /\ outcome = "sleep"

\* C6: every response that is neither a 200 nor quota-exhausted makes safe_get
\* raise; safe_get returns no such response.
C6_NonSuccessRaises ==
    \A r \in Received :
        r.status # 200 /\ ~QuotaExhausted(r) => outcome = "raise"

\* The rel="next" entries of a Link header.
NextLinks(header) ==
    IF header = None THEN {}
    ELSE {header[1][i].url : i \in {j \in DOMAIN header[1] : header[1][j].rel = "next"}}
\* A listed commit the membership filter lets through.
Kept(commit) ==
    IF include_all_users THEN TRUE
    ELSE IF commit.author = None THEN FALSE
    ELSE commit.author[1] \in Range(MemberList)
ShasOf(list) == [i \in DOMAIN list |-> list[i].sha]
CommitPcs == {"commits", "commit_loop", "detail", "merge"}

\* C7: a paginated listing (members, repositories, the commits of a branch)
\* asks for each page once, in the order the next links give; it yields every
\* item of every page once, in page order; and it stops after the page that
\* carries no next link.
C7_Pages ==
    /\ \A i, j \in DOMAIN pagesSeen : i < j => pagesSeen[i] < pagesSeen[j]
    /\ pc \in CommitPcs => \A i \in DOMAIN pagesSeen : pagesSeen[i] = i
    /\ org_members # None => org_members = Some(Range(MemberList))
    /\ ri > 0 => repos = RepoList
    /\ pc = "merge" => ShasOf(commits) = ShasOf(SelectSeq(listed, Kept))
C7_Step ==
    /\ pc = "commit_loop" /\ pc' = "merge" => NextLinks(respLink) = {}
    /\ pc = "commit_loop" /\ ci > Len(data) /\ NextLinks(respLink) # {}
          => pc' = "commits" /\ url' \in NextLinks(respLink)
    /\ pc = "members" /\ pc' = "repos" => Len(pagesSeen) >= 1
C7_Pagination == [] C7_Pages /\ [][C7_Step]_vars

C7_Witness ==
    /\ pc = "merge"
    /\ pagesSeen = <<1, 2>>
    /\ Len(commits) = 2
    /\ NextLinks(respLink) = {}
    /\ org_members # None

\* C8: fetch_branches returns the branches of every page of the repository's
\* branch listing.
C8_AllBranchPages ==
    pc = "branch_loop" /\ bi = 1 /\ repos[ri] \notin branchFailed
        => branches = BranchList(repos[ri])

\* C9: a page whose body is not a list ends the listing of members, of
\* repositories and of a branch's commits without an error: no exception
\* leaves the function and the items read before are kept.
NotAList ==
    /\ pc \in {"members", "repos", "commits"}
    /\ outcome = "return"
    /\ \A r \in Received : r.status = 200 /\ r.body = "object"
C9_Step ==
    NotAList =>
        /\ pc' # "raised"
        /\ members' = members /\ repos' = repos /\ commits' = commits
C9_NonListEndsListing == [][C9_Step]_vars

\* C10: when a repository's branch listing fails, fetch_branches returns no
\* branch for it, nothing is raised, and the traversal goes on: every other
\* repository's branches are traversed and the returned list holds every
\* commit their listings yielded.
BranchListingFails ==
    /\ pc = "branches"
    /\ \/ outcome = "raise"
       \/ outcome = "return" /\ \E r \in Received : r.body # "expected"
C10_Step ==
    BranchListingFails =>
        /\ pc' = "branch_loop"
        /\ branches' = <<>>
        /\ ri' = ri
        /\ UNCHANGED aggv
C10_Done ==
    pc = "done" =>
        /\ \A r \in Range(RepoList) \ branchFailed : \E b \in Range(BranchList(r)) :
              <<r, b>> \in traversed
        /\ {e.sha : e \in Entries} = Observed
C10_BranchFailureSkipsRepository == [] C10_Done /\ [][C10_Step]_vars

C10_Witness ==
    /\ pc = "done"
    /\ branchFailed = {"r1"}
    /\ all_unique_commits # <<>>

\* The pending request has failed: safe_get raised, or the body is no JSON.
RequestFailed ==
    \/ outcome = "raise"
    \/ outcome = "return" /\ \E r \in Received : r.body = "empty"

\* C11: when the request for a page of a branch's commit listing fails,
\* fetch_commits_for_branch stops there and returns the commits accepted so
\* far; nothing is raised, the commits returned are merged and the traversal
\* goes on with the next branch.
C11_Step ==
    /\ pc = "commits" /\ RequestFailed
          => pc' = "merge" /\ commits' = commits /\ ri' = ri /\ bi' = bi
    /\ pc = "merge"
          => /\ pc' = "branch_loop" /\ ri' = ri /\ bi' = bi + 1
             /\ \A i \in DOMAIN commits : InDict(commits[i].sha, unique_commits_dict')
C11_Traversing == pc = "raised" => ri = 0
C11_PageFailureEndsBranch == [] C11_Traversing /\ [][C11_Step]_vars

C11_Witness ==
    /\ pc = "commits"
    /\ RequestFailed
    /\ url.page = 2
    /\ commits # <<>>

\* C12: when the detail request of a commit fails, fetch_commit_details
\* returns None and raises nothing: the commit is appended to the branch's
\* commits without stats and files, the rest of the page is processed, and
\* the commit is in the unique set.
C12_Step ==
    pc = "detail" /\ RequestFailed =>
        /\ pc' = "commit_loop" /\ ci' = ci + 1 /\ data' = data
        /\ commits' = Append(commits, commit_info[1])
        /\ DOMAIN commit_info[1] \cap {"stats", "files", "files_changed"} = {}
C12_Retained ==
    pc = "done" => \A s \in Observed : \E e \in Entries : e.sha = s
C12_DetailFailureKeepsCommit == [] C12_Retained /\ [][C12_Step]_vars

C12_Witness ==
    /\ pc = "done"
    /\ \E e \in Entries : "stats" \notin DOMAIN e

\* C13: a run of main whose failures are all per-scope (branch listings,
\* commit pages, commit details), so that fetch_all_commits returns its
\* commits, writes the tabular export, the summary and the metadata and ends
\* with status 0, also when some commits have their detail and others not.
C13_PerScopeFailuresStillReport ==
    pc = "exit" /\ all_unique_commits # <<>> =>
        /\ exit_status = Some(0)
        /\ out.csv # None /\ out.md # None /\ out.metadata # None

\* C14: when the members request or the repositories request ends with a
\* status that is no success and not quota-exhausted, the error leaves
\* fetch_all_commits, main ends with a non-zero status, and the run has
\* created no output directory and written no file.
TopLevelError ==
    /\ pc \in {"members", "repos"}
    /\ outcome \in {"raise", "return"}
    /\ \E r \in Received : r.status # 200
C14_Step ==
    /\ TopLevelError => pc' = "raised"
    /\ pc = "raised" => pc' = "exit" /\ exit_status' = Some(1) /\ out' = NoOutput
C14_Aborted ==
    pc = "raised" \/ (pc = "exit" /\ ri = 0) => out = NoOutput /\ exit_status # Some(0)
C14_TopLevelErrorAborts == [] C14_Aborted /\ [][C14_Step]_vars

C14_Witness ==
    /\ pc = "exit"
    /\ load_environment(config) = "ok"
    /\ pagesSeen # <<>>
    /\ exit_status = Some(1)
    /\ out = NoOutput

\* C15: when the .env file, the token or the organization is missing, main
\* makes no request, writes nothing and ends with a non-zero status.
ConfigComplete == config.env_file /\ config.token /\ config.org
C15_ConfigurationMissing ==
    ~ConfigComplete =>
        /\ pc \in {"main", "exit"}
        /\ response = None /\ outcome = "idle" /\ attempts = 0 /\ pagesSeen = <<>>
        /\ out = NoOutput
        /\ pc = "exit" => exit_status = Some(1)

C15_Witness ==
    /\ pc = "exit"
    /\ config.env_file /\ config.token /\ ~config.org

\* The raw commit of a sha, as the server lists it.
Raw(sha) == CHOOSE c \in CommitPool : c.sha = sha

\* C16: with the membership filter on, fetch_commits_for_branch yields a
\* commit only if the commit has an author account and the account is in the
\* resolved member set; with the filter off it yields every commit the
\* server lists, and one without an author account has the login "Unknown".
C16_MembershipFilter ==
    /\ ~include_all_users =>
          \A i \in DOMAIN commits :
              /\ org_members # None
              /\ Raw(commits[i].sha).author \in {Some(m) : m \in org_members[1]}
              /\ commits[i].author_login \in org_members[1]
    /\ include_all_users =>
          /\ org_members = None
          /\ pc = "merge" => ShasOf(commits) = ShasOf(listed)
          /\ \A i \in DOMAIN commits :
                Raw(commits[i].sha).author = None => commits[i].author_login = "Unknown"

C16_Witness ==
    /\ ~include_all_users
    /\ pc = "merge"
    /\ Len(listed) = 2
    /\ Len(commits) = 1

\* C17: with since and until given, fetch_commits_for_branch yields no commit
\* authored before since, and none authored at or after until, whatever the
\* pages of the server hold.
C17_WindowFilter ==
    \A i \in DOMAIN commits :
        Since <= commits[i].date /\ commits[i].date < Until

\* C18: the unique commits handed to the report generation are the returned
\* ones ordered by date, descending: of two consecutive rows the first has
\* the later or the same date, in whatever order the traversal met them.
C18_SortedByDate ==
    pc = "exit" /\ all_unique_commits # <<>> =>
        /\ Len(df) = Len(all_unique_commits)
        /\ Range(df) = Entries
        /\ \A i \in 1 .. Len(df) - 1 : df[i].date >= df[i + 1].date

C18_Witness ==
    /\ pc = "exit"
    /\ Len(df) = 2
    /\ df # all_unique_commits

\* main is over after a traversal that collected no commit.
FoundNothing == pc = "exit" /\ ri > Len(RepoList) /\ all_unique_commits = <<>>

\* C19: a run that finds no commit writes one file, the metadata record, with
\* total count 0: no tabular export, no summary, no file of a commit.
C19_OnlyMetadata ==
    FoundNothing =>
        /\ out.csv = None /\ out.md = None /\ out.commits = {}
        /\ out.metadata # None
        /\ \A m \in Range(out.metadata) : m.total = 0

C19_Witness ==
    /\ FoundNothing
    /\ out.metadata = Some(Metadata(0))
    /\ served = 0

\* C20 as stated: the bundle of a run that finds no commit holds an empty
\* tabular export, the summary text saying that no commit was found for the
\* window, and a metadata record with total count 0.
C20_EmptyBundle ==
    FoundNothing =>
        /\ out.csv = Some(<<>>)
        /\ out.md = Some(generate_summary(<<>>))
        /\ out.metadata = Some(Metadata(0))

\* C20 as amended: a run that finds no commit neither builds the frame nor
\* writes an export or a summary; it creates the output directory, writes
\* the metadata record of the window with total count 0, and ends with
\* status 0.
C20_MetadataOfWindow ==
    FoundNothing =>
        /\ df = <<>>
        /\ out = [NoOutput EXCEPT !.dir = TRUE,
                                  !.metadata = Some([start |-> Since, end |-> Until, total |-> 0])]
        /\ exit_status = Some(0)

C20_Witness ==
    /\ FoundNothing
    /\ served > 0
    /\ out.dir

\* ----------------------------------------------------------------------- C21
\* The unique commits whose detail lists at least one changed file.
WithFileChanges == {e \in Entries : "files" \in DOMAIN e /\ Len(e.files) >= 1}

\* C21: with per-commit files enabled, a run that reports its commits ends
\* without error and has written one file, named from the repository, the sha
\* and the timestamp, for exactly the unique commits with at least one file
\* change; a commit with no file change or with no detail gets none.
C21_FilePerChangedCommit ==
    pc = "exit" /\ no_individual_files = Some(FALSE) =>
        /\ exit_status = Some(0)
        /\ out.commits = {<<e.repo, e.sha, e.date>> : e \in WithFileChanges}

\* ----------------------------------------------------------------------- C22
\* C22: in every run the window main computes has since <= until, whatever
\* integer --hours-back is, zero and negative values included.
C22_SinceBeforeUntil ==
    start_time # None /\ end_time # None => start_time[1] <= end_time[1]

\* ----------------------------------------------------------------------- C23
\* A step in which requests.get is called.
Requested == attempts' = attempts + 1
\* <<i, j>> is at or before <<k, l>>: repository first, then branch.
NotAfter(i, j, k, l) == i < k \/ (i = k /\ j <= l)

\* C23: the collector is sequential.  A request is sent only while no
\* response waits to be handled and is answered before anything else happens;
\* every request about a repository names the repository the loop is at, every
\* commit request the branch the loop is at, and the loops only move forward
\* (repository by repository in the order listed, branch by branch within
\* it), so the requests for a repository precede those for the next one and
\* the requests for a branch those for the next one; the pages of a branch are
\* asked in link order, each page after the one whose next link named it.
C23_Step ==
    /\ NotAfter(ri, bi, ri', bi')
    /\ ri > 0 => repos' = repos
    /\ bi > 0 /\ ri' = ri => branches' = branches
    /\ Requested =>
          /\ outcome \in {"idle", "sleep"}
          /\ response' # None /\ outcome' # "idle"
          /\ UNCHANGED <<url, params, ri, bi>>
          /\ url.ep \in {"branches", "commits", "commit"} =>
                ri \in DOMAIN repos /\ url.repo = repos[ri]
          /\ url.ep = "commits" => bi \in DOMAIN branches /\ RequestedBranch = branches[bi]
          /\ url.ep = "commit" =>
                /\ bi \in DOMAIN branches
                /\ commit_info # None /\ commit_info[1].branch = branches[bi]
          /\ url.ep = "commits" /\ outcome = "idle" => url.page = Len(pagesSeen) + 1
    /\ ~Requested /\ outcome # "idle" /\ outcome' # "idle" => UNCHANGED outcome
C23_OneAtATime == outcome \in {"idle", "sleep"} \/ response # None
C23_Sequential == [] C23_OneAtATime /\ [][C23_Step]_vars

C23_Witness ==
    /\ pc = "commits" /\ outcome = "return"
    /\ ri = 2 /\ bi = 1
    /\ pagesSeen = <<1, 2>>
    /\ {<<"r1", "main">>, <<"r1", "dev">>} \subseteq traversed

\* ----------------------------------------------------------------------- C24
\* The safe_get call about to ask, or asking again after a sleep, is the
\* first one of the branch's commit listing.
FirstCall ==
    \/ outcome = "idle" /\ pagesSeen = <<>>
    \/ outcome = "sleep" /\ Len(pagesSeen) = 1

\* C24: in a branch's commit listing the first request, and no other, carries
\* the query parameters (branch, page size, since, until); every later
\* request is for exactly the URL of the previous response's rel="next" link,
\* without parameters; and the listing ends at the first page whose response
\* has no next link, be it without a Link header or with one that has no
\* rel="next".
C24_Step ==
    /\ Requested /\ url.ep = "commits" =>
          IF FirstCall
          THEN /\ params = Some([sha |-> branches[bi], per_page |-> 100,
                                 since |-> start_time[1], until |-> end_time[1]])
               /\ url = Url("commits", repos[ri], "", 1)
          ELSE params = None
    /\ pc = "commit_loop" /\ pc' = "commits" =>
          /\ url' \in NextLinks(respLink)
          /\ params' = None
    /\ pc = "commits" /\ pc' = "commits" => UNCHANGED <<url, params>>
    /\ pc = "commit_loop" /\ ci > Len(data) /\ NextLinks(respLink) = {} => pc' = "merge"
    /\ pc = "commit_loop" /\ pc' = "merge" => NextLinks(respLink) = {}
C24_ParametersOnFirstRequestOnly == [][C24_Step]_vars

\* The second page was asked for without parameters and ends the listing
\* with a Link header that has no next link.
C24_Witness ==
    /\ pc = "merge"
    /\ Len(pagesSeen) = 2
    /\ params = None
    /\ respLink # None /\ NextLinks(respLink) = {}

\* ----------------------------------------------------------------------- C25
\* The first commit of a branch's list with the sha.
FirstWith(list, sha) ==
    list[CHOOSE i \in DOMAIN list :
            list[i].sha = sha /\ \A j \in 1 .. i - 1 : list[j].sha # sha]

\* C25: observing a sha that is already in the aggregator changes nothing of
\* its unique commit: every entry of unique_commits_dict stays as it is for
\* the rest of the run, detail present or absent; a new entry is for a sha
\* that had none and is the first commit of the branch's list with that sha;
\* and the returned commit is the entry with its branch list added.
C25_Step ==
    /\ Len(unique_commits_dict') >= Len(unique_commits_dict)
    /\ \A i \in DOMAIN unique_commits_dict :
          unique_commits_dict'[i] = unique_commits_dict[i]
    /\ \A i \in DOMAIN unique_commits_dict' \ DOMAIN unique_commits_dict :
          /\ \A j \in DOMAIN unique_commits_dict :
                unique_commits_dict[j].sha # unique_commits_dict'[i].sha
          /\ unique_commits_dict'[i] = FirstWith(commits, unique_commits_dict'[i].sha)
    /\ pc' = "done" /\ pc # "done" =>
          /\ Len(all_unique_commits') = Len(unique_commits_dict)
          /\ \A i \in DOMAIN unique_commits_dict :
                /\ DOMAIN all_unique_commits'[i]
                      = DOMAIN unique_commits_dict[i] \cup {"appears_in_branches"}
                /\ \A k \in DOMAIN unique_commits_dict[i] :
                      all_unique_commits'[i][k] = unique_commits_dict[i][k]
C25_FirstObservationKept == [][C25_Step]_vars

\* A branch's list holds, with its detail, a sha whose unique commit has none.
C25_Witness ==
    /\ pc = "merge"
    /\ \E i \in DOMAIN unique_commits_dict, j \in DOMAIN commits :
          /\ unique_commits_dict[i].sha = commits[j].sha
          /\ "stats" \notin DOMAIN unique_commits_dict[i]
          /\ "stats" \in DOMAIN commits[j]

\* ----------------------------------------------------------------------- C26
\* C26: a run that finds at least one commit writes a metadata record whose
\* total count is the number of rows of the tabular export and the number of
\* distinct shas the run collected.
C26_CountsAgree ==
    pc = "exit" /\ all_unique_commits # <<>> =>
        /\ out.metadata # None /\ out.csv # None
        /\ out.metadata[1].total = Len(out.csv[1])
        /\ Len(out.csv[1]) = Cardinality(Observed)

\* ----------------------------------------------------------------------- C27
\* The (repository, author) groups of the data frame, the rows and the
\* distinct permalinks of a group, and the lines of the summary written.
SummaryGroups == {<<df[i].repo, df[i].author>> : i \in DOMAIN df}
GroupRows(g) == {i \in DOMAIN df : <<df[i].repo, df[i].author>> = g}
GroupLinks(g) == {df[i].commit_link : i \in GroupRows(g)}
Lines == out.md[1].lines
GroupAt == {k \in DOMAIN Lines : Lines[k].kind = "group"}
HeadingAt == {k \in DOMAIN Lines : Lines[k].kind = "repository"}
KeyAt(k) == <<Lines[k].repo, Lines[k].author>>

\* C27: the summary has one line for every (repository, author) group and no
\* other; the line gives the group's commit count and min(n, 5) numbered
\* permalinks of the group, n being the number of its distinct permalinks, and
\* the overflow note, with the count n - 5, exactly when n > 5; every
\* repository has one heading, and its groups follow that heading one after
\* the other.
C27_Summary ==
    pc = "exit" /\ df # <<>> /\ out.md # None =>
        /\ \A g \in SummaryGroups : Cardinality({k \in GroupAt : KeyAt(k) = g}) = 1
        /\ \A k \in GroupAt :
              LET n == Cardinality(GroupLinks(KeyAt(k)))
                  line == Lines[k]
              IN /\ KeyAt(k) \in SummaryGroups
                 /\ line.commit_count = Cardinality(GroupRows(KeyAt(k)))
                 /\ Len(line.links) = Min(n, 5)
                 /\ Range(line.links) \subseteq GroupLinks(KeyAt(k))
                 /\ Cardinality(Range(line.links)) = Len(line.links)
                 /\ line.more # None <=> n > 5
                 /\ n > 5 => line.more = Some(n - 5)
        /\ \A i \in DOMAIN df :
              Cardinality({k \in HeadingAt : Lines[k].repo = df[i].repo}) = 1
        /\ \A k \in HeadingAt : \E i \in DOMAIN df : df[i].repo = Lines[k].repo
        /\ \A k \in GroupAt :
              \E h \in HeadingAt :
                 /\ h < k
                 /\ Lines[h].repo = Lines[k].repo
                 /\ \A m \in h + 1 .. k - 1 : m \in GroupAt /\ Lines[m].repo = Lines[k].repo

\* Two repositories, a group each, one with more than five permalinks
\* and its overflow note.
C27_Witness ==
    /\ pc = "exit" /\ df # <<>> /\ out.md # None
    /\ Cardinality(HeadingAt) = 2
    /\ Cardinality(GroupAt) = 2
    /\ \E k \in GroupAt : Lines[k].more = Some(1)

\* ----------------------------------------------------------------------- C28
\* The commits collected so far: of the branch in progress, of the
\* aggregator, of the returned list.
Collected == Range(commits) \cup Range(unique_commits_dict) \cup Entries
\* The shas whose commit objects the files of a detail record come from.
DetailOf(commit) == {commit.files[i].filename[1] : i \in DOMAIN commit.files}

\* C28: a detail record (stats, files) a commit carries was obtained by the
\* detail request for that commit's sha: the request that fills a commit's
\* detail names the commit's sha and was answered with 200, and no commit
\* collected carries files of another sha's commit object.
C28_Step ==
    pc = "detail" /\ Len(commits') > Len(commits) =>
        LET commit == commits'[Len(commits')]
        IN /\ commit.sha = commit_info[1].sha
           /\ "stats" \in DOMAIN commit =>
                 /\ url.ep = "commit" /\ url.ref = commit.sha /\ url.repo = commit.repo
                 /\ response # None /\ response[1].status = 200
                 /\ detailCalls[commit.sha] >= 1
C28_OwnDetail ==
    \A commit \in Collected :
        "files" \in DOMAIN commit =>
            /\ "stats" \in DOMAIN commit
            /\ DetailOf(commit) \subseteq {commit.sha}
            /\ detailCalls[commit.sha] >= 1
C28_DetailOfSameSha == [] C28_OwnDetail /\ [][C28_Step]_vars

\* Two unique commits are returned, each with the files of its own sha.
C28_Witness ==
    /\ pc = "done"
    /\ \E e, f \in Entries :
          /\ e.sha # f.sha
          /\ "files" \in DOMAIN e /\ DetailOf(e) = {e.sha}
          /\ "files" \in DOMAIN f /\ DetailOf(f) = {f.sha}

\* ----------------------------------------------------------------------- C29
\* Some unique commit has its detail and some other has none.
MixedDetail ==
    /\ \E e \in Entries : "stats" \in DOMAIN e
    /\ \E e \in Entries : "stats" \notin DOMAIN e

\* C29: in a run where some unique commits have their detail and others not,
\* save_hourly_report does not raise and writes the tabular export with one
\* row for every unique commit, the rows of the commits without detail with 0
\* as total_additions, total_deletions and total_changes.
C29_MixedDetailExport ==
    pc = "exit" /\ MixedDetail =>
        /\ exit_status = Some(0)
        /\ out.csv # None
        /\ {out.csv[1][i].sha : i \in DOMAIN out.csv[1]} = {e.sha : e \in Entries}
        /\ Len(out.csv[1]) = Len(all_unique_commits)
        /\ \A i \in DOMAIN out.csv[1] :
              \A e \in Entries :
                 e.sha = out.csv[1][i].sha /\ "stats" \notin DOMAIN e =>
                    /\ out.csv[1][i].total_additions = 0
                    /\ out.csv[1][i].total_deletions = 0
                    /\ out.csv[1][i].total_changes = 0

\* ----------------------------------------------------------------------- C30
\* The shas whose detail has been requested.
DetailRequested == {s \in Shas : detailCalls[s] >= 1}

\* C30: the membership filter comes before the detail fetch: every request
\* of a commit's detail is for a commit that passes the filter, the shas
\* whose detail has been requested are among those that pass it, and the
\* step that skips an excluded commit sends no request for it.
C30_Step ==
    /\ Requested /\ url.ep = "commit" => Kept(Raw(url.ref))
    /\ \A s \in Shas : detailCalls'[s] > detailCalls[s] => Kept(Raw(s))
    /\ pc = "commit_loop" /\ ci <= Len(data) /\ ~Kept(data[ci]) =>
          pc' = "commit_loop" /\ ci' = ci + 1 /\ UNCHANGED <<url, detailCalls, commits>>
C30_Filtered == \A s \in DetailRequested : Kept(Raw(s))
C30_FilterBeforeDetail == [] C30_Filtered /\ [][C30_Step]_vars

\* A listing held an excluded commit and a member's commit: the detail of
\* the member's commit was requested, that of the excluded one was not.
C30_Witness ==
    /\ pc = "merge"
    /\ ~include_all_users
    /\ \E i \in DOMAIN listed : ~Kept(listed[i]) /\ detailCalls[listed[i].sha] = 0
    /\ \E i \in DOMAIN listed : Kept(listed[i]) /\ detailCalls[listed[i].sha] >= 1

\* ----------------------------------------------------------------------- C31
\* C31: with include_all_users no request goes to the members endpoint and
\* no member set is built, so an exception that leaves fetch_all_commits
\* comes from the repositories listing; with the membership filter on, every
\* request to another endpoint is sent after the members listing was fetched
\* to its last page.
C31_Step ==
    /\ Requested /\ url.ep = "members" => ~include_all_users
    /\ Requested /\ url.ep # "members" /\ ~include_all_users =>
          org_members = Some(Range(MemberList))
    /\ pc' = "raised" /\ pc # "raised" /\ include_all_users => url.ep = "repos"
C31_NoMembers ==
    include_all_users => pc # "members" /\ members = {} /\ org_members = None
C31_MembersOnlyWhenFiltering == [] C31_NoMembers /\ [][C31_Step]_vars

\* A run without the filter has returned commits, one of them without an
\* author account, and never had a member set.
C31_Witness ==
    /\ pc = "done"
    /\ include_all_users
    /\ org_members = None
    /\ \E e \in Entries : e.author_login = "Unknown"

\* ----------------------------------------------------------------------- C32
\* The branch names of the listings that yielded the sha, in that order.
YieldingBranches(sha) == [k \in DOMAIN yieldedIn[sha] |-> yieldedIn[sha][k][2]]

\* C32: deduplication is by sha alone, over all repositories: a sha that
\* listings of one or of several repositories yielded has one unique commit
\* in the result; its repository and permalink are those of the first
\* listing that yielded it, and its branch list holds the branch of every
\* listing that yielded it, whatever the repository.
C32_KeyedBySha ==
    pc = "done" =>
        \A s \in Shas :
            yieldedIn[s] # <<>> =>
                /\ Cardinality({i \in DOMAIN all_unique_commits :
                                   all_unique_commits[i].sha = s}) = 1
                /\ \A e \in Entries :
                      e.sha = s =>
                         /\ e.repo = yieldedIn[s][1][1]
                         /\ e.commit_link = <<yieldedIn[s][1][1], s>>
                         /\ Range(YieldingBranches(s)) \subseteq Range(BranchNames(e))
                         /\ Len(BranchNames(e)) >= Len(yieldedIn[s])
                         /\ s \notin repeated => BranchNames(e) = YieldingBranches(s)

\* A sha was yielded by a branch of r1 and then by a branch of r2.
C32_Witness ==
    /\ pc = "done"
    /\ \E s \in Shas :
          /\ Len(yieldedIn[s]) = 2
          /\ yieldedIn[s][1][1] = "r1"
          /\ yieldedIn[s][2][1] = "r2"

\* ----------------------------------------------------------------------- C33
\* How far the run is: the part of main, the repository, the branch, the
\* part of the branch's turn, the page, the part of the page's turn, the
\* commit of the page, whether its detail is being fetched, and the
\* requests the safe_get call in progress has made.
Phase ==
    IF pc = "main" THEN 0
    ELSE IF pc = "members" THEN 1
    ELSE IF pc = "repos" THEN 2
    ELSE IF pc \in {"raised", "done"} THEN 4
    ELSE IF pc = "exit" THEN 5
    ELSE 3
Stage ==
    IF pc \in {"branches", "commits", "commit_loop", "detail"} THEN 1
    ELSE IF pc = "merge" THEN 2
    ELSE 0
PageNo ==
    IF pc \in {"members", "repos", "branches", "commits"} /\ outcome = "idle"
    THEN Len(pagesSeen) + 1 ELSE Len(pagesSeen)
InCommitLoop == IF pc \in {"commit_loop", "detail"} THEN 1 ELSE 0
CommitNo == IF pc \in {"commit_loop", "detail"} THEN ci ELSE 0
InDetail == IF pc = "detail" THEN 1 ELSE 0
Progress ==
    <<Phase, ri, bi, Stage, PageNo, InCommitLoop, CommitNo, InDetail, attempts>>

\* C33: when every listing is a finite chain of pages (at most MaxPages of
\* commits) and every safe_get call gets finitely many quota-exhausted
\* responses (at most MaxRateLimited), the run ends: every step takes the
\* run further (Progress' comes after Progress in the order of the tuples:
\* the first component that changes grows), it can only get boundedly far,
\* and it stops nowhere but at the exit of main.
C33_Step ==
    IF Phase # Phase' THEN Phase < Phase'
    ELSE IF ri # ri' THEN ri < ri'
    ELSE IF bi # bi' THEN bi < bi'
    ELSE IF Stage # Stage' THEN Stage < Stage'
    ELSE IF PageNo # PageNo' THEN PageNo < PageNo'
    ELSE IF InCommitLoop # InCommitLoop' THEN InCommitLoop < InCommitLoop'
    ELSE IF CommitNo # CommitNo' THEN CommitNo < CommitNo'
    ELSE IF InDetail # InDetail' THEN InDetail < InDetail'
    ELSE attempts < attempts'

C33_Bounded ==
    /\ ri <= Len(RepoList) + 1
    /\ bi <= Len(branches) + 1
    /\ Len(pagesSeen) <= Max(MaxPages, Max(Len(MemberList), Len(RepoList)))
    /\ ci <= MaxPerPage + 1
    /\ attempts <= MaxRateLimited + 1
    /\ pc \notin {"exit", "done"} => ENABLED Next
    \* at line 519 main takes one branch or the other, and save_hourly_report
    \* returns or raises
    /\ pc = "done" => \/ ENABLED main_no_commits
                      \/ all_unique_commits # <<>> /\ Report(TRUE).raised \in BOOLEAN
C33_Terminates == [] C33_Bounded /\ [][C33_Step]_vars

\* A run that asked for every branch of every repository and reported its
\* commits has ended.
C33_Witness ==
    /\ pc = "exit"
    /\ Cardinality(traversed) = 3
    /\ all_unique_commits # <<>>

\* ----------------------------------------------------------------------- C34
\* The response of this step's requests.get call, if the step makes one.
Answer == IF Requested /\ response' # None THEN {response'[1]} ELSE {}

\* C34: a quota-exhausted response without a reset time is a rate limit
\* like the others: safe_get does not raise, it sleeps 60 + 5 seconds from
\* the time it reads and then sends the same request again.
C34_Step ==
    /\ \A r \in Answer :
          QuotaExhausted(r) /\ r.reset = None =>
             /\ outcome' = "sleep"
             /\ now' = now + 60 + 5
             /\ UNCHANGED <<pc, url, params>>
    /\ outcome = "sleep" /\ response[1].reset = None =>
          Requested /\ UNCHANGED <<pc, url, params>>
C34_NoResetTime ==
    \A r \in Received :
        QuotaExhausted(r) /\ r.reset = None => outcome = "sleep" /\ pc # "raised"
C34_DefaultInterval == [] C34_NoResetTime /\ [][C34_Step]_vars

\* Two quota-exhausted responses without a reset time in a row: the second
\* answers the retry, 65 seconds after the first; 130 seconds are slept.
C34_Witness ==
    /\ outcome = "sleep"
    /\ attempts = 2
    /\ response[1].reset = None
    /\ now = 130

\* ----------------------------------------------------------------------- C36
\* C36: the branch attribute of every unique commit is the first name of its
\* branch list: while the commits are merged, the stored commit of a sha
\* carries the branch that heads commit_branches[sha]; in the returned list,
\* every entry's branch is the first of the names joined into its
\* appears_in_branches.
C36_BranchHeadsBranchList ==
    /\ \A i \in DOMAIN unique_commits_dict :
          LET c == unique_commits_dict[i]
          IN /\ c.sha \in DOMAIN commit_branches
             /\ commit_branches[c.sha] # <<>>
             /\ c.branch = commit_branches[c.sha][1]
    /\ \A e \in Entries :
          /\ BranchNames(e) # <<>>
          /\ e.branch = BranchNames(e)[1]

\* A commit first yielded by branch dev of r1, then by branch main of r2:
\* its branch list is not in the order of BranchList and starts with dev.
C36_Witness ==
    /\ pc = "done"
    /\ \E e \in Entries :
          /\ e.branch = "dev"
          /\ BranchNames(e) = <<"dev", "main">>

\* ----------------------------------------------------------------------- C35
\* The files of a name in a directory of the disk, and the run before the last.
FilesNamed(dir, name) == {f \in disk.files : f[1] = dir /\ f[2] = name}
LastRun == reported[Len(reported)]
EarlierRun == reported[Len(reported) - 1]
TwoRunsInOneHour == Len(reported) >= 2 /\ EarlierRun.at[1] = LastRun.at[1]

\* C35: two runs of the same clock hour write into the same hour directory,
\* and the metadata record there describes the later one (its window and its
\* total count); when the earlier run found commits and the later one none,
\* the directory holds the earlier run's tabular export, with a row for each
\* of its commits, and its summary, and a metadata record with total count 0.
C35_SameHourRuns ==
    TwoRunsInOneHour =>
        /\ EarlierRun.dir = LastRun.dir
        /\ LastRun.dir \in disk.dirs
        /\ {f[3] : f \in FilesNamed(LastRun.dir, <<"metadata.txt">>)} = {LastRun.describes}
        /\ EarlierRun.total > 0 /\ LastRun.total = 0 =>
              /\ \E f \in FilesNamed(LastRun.dir, <<"commits.csv", EarlierRun.timestamp>>) :
                    Len(f[3]) = EarlierRun.total
              /\ FilesNamed(LastRun.dir, <<"summary.md", EarlierRun.timestamp>>) # {}
              /\ \A f \in FilesNamed(LastRun.dir, <<"metadata.txt">>) : f[3].total = 0
====
